---- MODULE Spec2Model ----
(***************************************************************************)
(* Model of the data freshness core of the earthquake dashboard:           *)
(*   EarthquakeService  (src/src/earthquakeService.ts)                     *)
(*   IndexedDBService   (src/unnamed/part_004)                             *)
(*   NotificationService(src/unnamed/part_010)                             *)
(*   refreshData        (src/src/main.ts)                                  *)
(*   RegionalCoverageService (src/src/firebase.ts)                         *)
(* and of the services beside it, each studied on its own:                 *)
(*   CommunityService   (src/src/communityService.ts): news posts, votes   *)
(*   AdminService       (src/unnamed/part_012)                             *)
(*   SecurityUtils.rateLimit (src/src/security.ts)                         *)
(*                                                                         *)
(* Units: latitude/longitude are in tenths of a degree and magnitudes in   *)
(* tenths of a magnitude unit, so that 9.8 is 98 and 4.0 is 40.            *)
(* Durations are in milliseconds as in the source.  Event times and the    *)
(* clock are in seconds (the source's milliseconds / 1000), so that 30     *)
(* days stay within 32-bit integers.                                       *)
(*                                                                         *)
(* Granularity: the browser runs one task at a time; an await on a network,*)
(* storage, timer or permission request ends the task.  Each action below  *)
(* is one task: the code from one such await up to the next.               *)
(***************************************************************************)
EXTENDS Integers, Sequences, FiniteSets, Bags, TLC

VARIABLES
    cachedData,           \* EarthquakeService.cachedData
    sinceLastFetch,       \* Date.now() - EarthquakeService.lastFetch, saturated at cacheDuration
    db,                   \* the IndexedDB object store 'earthquakes' (keyPath id)
    currentEarthquakes,   \* main.ts currentEarthquakes: the Snapshot's events
    apiStatus,            \* the status-api indicator set by updateSystemStatus
    permission,           \* NotificationService.permission
    notifiedEarthquakes,  \* NotificationService.notifiedEarthquakes: the ledger
    emitted,              \* history: number of `new Notification` successes per id
    run,                  \* the refreshData invocations in flight (a bag of records)
    features,             \* geo filter study: the feed's feature list
    rawEarthquakes,       \* geo filter study: the result of map/filter
    snapshotSrc,          \* history: where the current Snapshot came from
    refiltered,           \* geo filter study: the result of filtering the result again
    puts,                 \* saveEarthquakes study: the calls made so far
    now,                  \* Date.now(), in seconds
    eviction,             \* the clearOldData call of the hourly timer
    currentRegion,        \* RegionalCoverageService.currentRegion (its id)
    shown,                \* what each display of the page was last computed from
    lastNetwork,          \* history: the result of the latest fetch that succeeded,
                          \* kept for observed invocations
    overtaken,            \* history: while the followed invocation was fetching,
                          \* a later one published what it had fetched
    currentUser,          \* CommunityService.currentUser ("none" for null)
    userPostsToday,       \* CommunityService.userPostsToday
    communityNews,        \* the Firestore collection 'communityNews': the user's posts, by day
    today,                \* the calendar day of Date.now()
    postCalls,            \* the postNews and checkUserPostsToday calls in flight
    lastPost,             \* history: how the latest postNews call was answered
    report,               \* one document of the Firestore collection 'earthquakeReports'
    voteCalls,            \* the voteOnReport calls in flight
    votesMade,            \* the number of voteOnReport calls made
    authUser,             \* the e-mail of Firebase's auth.currentUser
    authNotified,         \* whether the auth state listeners were told of authUser
    adminUser,            \* the e-mail of AdminService.currentUser
    isAdmin,              \* AdminService.isAdmin
    adminCalls,           \* the calls of the admin service in flight
    documents,            \* the Firestore documents the admin service writes to
    lastAdmin,            \* history: how the latest admin operation was answered
    attempts,             \* localStorage rateLimit_<key>: the time stamps kept
    clockMs,              \* Date.now() of the rate limiter, in milliseconds
    allowed,              \* history: the times at which rateLimit returned true
    refusals              \* history: the number of calls for which it returned false

\* the refresh core and its studies
coreVars == <<cachedData, sinceLastFetch, db, currentEarthquakes, apiStatus, permission,
              notifiedEarthquakes, emitted, run, features, rawEarthquakes, snapshotSrc,
              refiltered, puts, now, eviction, currentRegion, shown,
              lastNetwork, overtaken>>

communityVars == <<currentUser, userPostsToday, communityNews, today, postCalls, lastPost>>

voteVars == <<report, voteCalls, votesMade>>

adminVars == <<authUser, authNotified, adminUser, isAdmin, adminCalls, documents, lastAdmin>>

limitVars == <<attempts, clockMs, allowed, refusals>>

vars == <<cachedData, sinceLastFetch, db, currentEarthquakes, apiStatus, permission,
          notifiedEarthquakes, emitted, run, features, rawEarthquakes, snapshotSrc,
          refiltered, puts, now, eviction, currentRegion, shown,
          lastNetwork, overtaken,
          currentUser, userPostsToday, communityNews, today, postCalls, lastPost,
          report, voteCalls, votesMade, authUser, authNotified, adminUser, isAdmin,
          adminCalls, documents, lastAdmin, attempts, clockMs, allowed, refusals>>

(***************************************************************************)
(* Bounds of the model                                                     *)
(***************************************************************************)
NumRuns == 2          \* refreshData invocations that may overlap
MaxFeed == 2          \* features in one feed response of the refresh model
MaxFilterLen == 3     \* features in one feed response of the geo filter study
MaxPutLen == 2        \* earthquakes in one saveEarthquakes call of the cache store study
MaxDay == 2           \* calendar days of the community news study
MaxNews == 4          \* news posts stored in the community news study
MaxPostCalls == 2     \* postNews and checkUserPostsToday calls in flight
MaxVotes == 4         \* voteOnReport calls of the vote study
MaxAdminCalls == 2    \* calls of the admin service in flight
MaxSubscriptions == 7 \* subscribeEmail calls of the rate limit study
MaxClockMs == 120000  \* the last time of the rate limit study

(***************************************************************************)
(* Program constants                                                       *)
(***************************************************************************)
minLat == 98          \* SOUTHERN_LEYTE_BOUNDS.minLat  9.8
maxLat == 108         \* SOUTHERN_LEYTE_BOUNDS.maxLat 10.8
minLng == 1245        \* SOUTHERN_LEYTE_BOUNDS.minLng 124.5
maxLng == 1255        \* SOUTHERN_LEYTE_BOUNDS.maxLng 125.5
cacheDuration == 60000
maxRetries == 3
retryDelay == 2000
threshold == 40       \* notifyMultipleEarthquakes(currentEarthquakes, 4.0)
olderThanDays == 30   \* clearOldData(30)
dayLength == 86400    \* 24 * 60 * 60 * 1000 ms
feedDays == 7         \* fetchEarthquakes('week'): the all_week feed
MAX_POSTS_PER_DAY == 2
minContent == 10      \* postNews: trimmedContent.length < 10
maxContent == 500     \* postNews: trimmedContent.length > 500
maxAttempts == 5      \* rateLimit('email_subscription', 5, 60000)
windowMs == 60000

\* part_004 line 113: the age at which a record is cleared
Retention == olderThanDays * dayLength

\* The clock.  It starts after the time of every early feature of the
\* catalog; later on, 30 days before now is the time of feature 1 or lies
\* between those of features 1 and 2.
StartClock == 100
Clocks == {StartClock, Retention + 10, Retention + 15}

(***************************************************************************)
(* The feed.  A feature is one entry of the GeoJSON response; geo = FALSE  *)
(* is an entry without geometry.coordinates.                               *)
(***************************************************************************)
Feature(i, m, t, la, ln, g) ==
    [id |-> i, mag |-> m, time |-> t, lat |-> la, lng |-> ln, geo |-> g]

Catalog ==
    { Feature(1, 40, 10, 98,  1255, TRUE),    \* on two edges of the region, magnitude = threshold
      Feature(2, 39, 20, 100, 1250, TRUE),    \* inside, below the threshold
      Feature(4, 60, 40, 109, 1250, TRUE),    \* latitude above maxLat
      Feature(5, 45, 50, 100, 1244, TRUE),    \* longitude below minLng
      Feature(6, 50, 60, 100, 1250, FALSE),   \* no geometry
      Feature(9, 42, Retention + 5, 100, 1250, TRUE) }  \* inside, a month later

Ids == {f.id : f \in Catalog}

\* Lists of features of cat (FeedsOfLen) and those of distinct features at
\* most len long (FeedsOver), in any order.
RECURSIVE FeedsOfLen(_, _)
FeedsOfLen(n, cat) ==
    IF n = 0 THEN { <<>> }
    ELSE { Append(s, f) : s \in FeedsOfLen(n - 1, cat), f \in cat }

Distinct(s) == \A i, j \in 1..Len(s) : i # j => s[i].id # s[j].id

FeedsOver(cat, len) ==
    UNION { {s \in FeedsOfLen(n, cat) : Distinct(s)} : n \in 0..len }

Ascending(s) == \A i, j \in 1..Len(s) : i < j => s[i].time < s[j].time

\* Feed responses of the refresh model: oldest first, so that the sort of
\* line 142 has to reverse them.
Feeds == {s \in FeedsOver(Catalog, MaxFeed) : Ascending(s)}

\* earthquakeService.ts line 84 with main.ts line 750: the all_week feed
\* lists the events of the last 7 days before the request at time t
InWeek(fs, t) ==
    \A i \in 1..Len(fs) : t - feedDays * dayLength <= fs[i].time /\ fs[i].time <= t

(***************************************************************************)
(* EarthquakeService.fetchWithRetry: the pure part (lines 108-142)         *)
(***************************************************************************)
InBoundsNoLng(lat, lng) ==
    lat >= minLat /\ lat <= maxLat

InBoundsStrict(lat, lng) ==
    lat > minLat /\ lat < maxLat /\ lng > minLng /\ lng < maxLng

\* lines 115-118: the region test, bounds inclusive
InBounds(lat, lng) ==
    lat >= minLat /\ lat <= maxLat /\ lng >= minLng /\ lng <= maxLng

ToEarthquakeSwapped(f) ==
    [id |-> f.id, mag |-> f.mag, time |-> f.time, lat |-> f.lng, lng |-> f.lat]

\* lines 122-133: the Earthquake built from a feature
ToEarthquake(f) ==
    [id |-> f.id, mag |-> f.mag, time |-> f.time, lat |-> f.lat, lng |-> f.lng]

\* lines 109-120: null for a feature without geometry or outside the region
Kept(f) == f.geo /\ InBounds(f.lat, f.lng)

\* lines 108-139: data.features.map(...).filter(eq => eq !== null)
RECURSIVE GeoFilter(_)
GeoFilter(fs) ==
    IF fs = <<>> THEN <<>>
    ELSE IF Kept(Head(fs)) THEN <<ToEarthquake(Head(fs))>> \o GeoFilter(Tail(fs))
         ELSE GeoFilter(Tail(fs))

\* Array.prototype.sort with (a, b) => b.time - a.time is stable: e goes
\* after every element whose time is >= its own.
RECURSIVE InsertByTimeDesc(_, _)
InsertByTimeDesc(e, s) ==
    IF s = <<>> THEN <<e>>
    ELSE IF Head(s).time >= e.time THEN <<Head(s)>> \o InsertByTimeDesc(e, Tail(s))
         ELSE <<e>> \o s

\* line 142: earthquakes.sort((a, b) => b.time - a.time)
RECURSIVE SortByTimeDesc(_)
SortByTimeDesc(s) ==
    IF s = <<>> THEN <<>>
    ELSE InsertByTimeDesc(s[Len(s)], SortByTimeDesc(SubSeq(s, 1, Len(s) - 1)))

\* lines 108-142: what one successful attempt makes of the response
ParseFeed(fs) == SortByTimeDesc(GeoFilter(fs))

RetryTooOften(attempt) == attempt <= maxRetries

RetryAlways(attempt) == TRUE

\* line 151: if (attempt < this.maxRetries)
ShouldRetry(attempt) == attempt < maxRetries

\* line 152: this.delay(this.retryDelay * attempt)
RetryDelayFor(attempt) == retryDelay * attempt

(***************************************************************************)
(* IndexedDBService                                                        *)
(***************************************************************************)
RECURSIVE PutAllKeepOld(_, _)
PutAllKeepOld(store, es) ==
    IF es = <<>> THEN store
    ELSE PutAllKeepOld(IF \E x \in store : x.id = Head(es).id THEN store
                       ELSE store \cup {Head(es)}, Tail(es))

\* lines 47-49: objectStore.put of each earthquake; one record per key
RECURSIVE PutAll(_, _)
PutAll(store, es) ==
    IF es = <<>> THEN store
    ELSE PutAll({x \in store : x.id # Head(es).id} \cup {Head(es)}, Tail(es))

\* lines 69-76: objectStore.getAll() answers in ascending key order
RECURSIVE GetAll(_)
GetAll(store) ==
    IF store = {} THEN <<>>
    ELSE LET first == CHOOSE x \in store : \A y \in store : x.id <= y.id
         IN  <<first>> \o GetAll(store \ {first})

PutNothing(store, es) == store

\* part_004 lines 43-60: the write transaction of saveEarthquakes
SaveEarthquakes(store, es) == PutAll(store, es)

ExpiredAbove(x, cutoffTime) == x.time >= cutoffTime

\* part_004 line 119: IDBKeyRange.upperBound(cutoffTime) on the time index;
\* the bound itself is in the range
Expired(x, cutoffTime) == x.time <= cutoffTime

\* part_004 lines 120-128: the cursor deletes every record in the range
ClearOld(store, cutoffTime) == {x \in store : ~Expired(x, cutoffTime)}

\* part_004 line 113: Date.now() - olderThanDays * 24 * 60 * 60 * 1000
CutoffTime(t, days) == t - days * dayLength

ReadDespiteError(ok, store) == GetAll(store)

\* earthquakeService.ts lines 54-63: what the fallback read leaves to
\* return; a rejected getAllEarthquakes is logged and leaves nothing
ReadOrNothing(ok, store) == IF ok THEN GetAll(store) ELSE <<>>

(***************************************************************************)
(* NotificationService                                                     *)
(***************************************************************************)
AboveThreshold(e, thr) == e.mag > thr

\* part_010 lines 57 and 126: magnitude >= threshold
IsSignificant(e, thr) == e.mag >= thr

\* line 124-131: earthquakes.filter(eq => eq.magnitude >= threshold && !has(eq.id))
SignificantEarthquakes(es, thr, ledger) ==
    SelectSeq(es, LAMBDA e : IsSignificant(e, thr) /\ e.id \notin ledger)

LedgerForget(ledger, id) == ledger

LedgerOnly(ledger, id) == {id}

\* line 101: this.notifiedEarthquakes.add(earthquake.id)
LedgerAdd(ledger, id) == ledger \cup {id}

\* lines 144-150 with notifyEarthquake (lines 45-110) inlined, permission
\* being 'granted': st is [ledger, emitted]; the constructor throws for the
\* ids in bad (lines 103-108: logged, the id is not added).
RECURSIVE NotifyEachUnchecked(_, _, _, _)
NotifyEachUnchecked(es, thr, bad, st) ==
    IF es = <<>> THEN st
    ELSE LET e == Head(es)
             skip == ~IsSignificant(e, thr) \/ e.id \in bad
             next == IF skip THEN st
                     ELSE [ledger  |-> LedgerAdd(st.ledger, e.id),
                           emitted |-> [st.emitted EXCEPT ![e.id] = @ + 1]]
         IN  NotifyEachUnchecked(Tail(es), thr, bad, next)

RECURSIVE NotifyEach(_, _, _, _)
NotifyEach(es, thr, bad, st) ==
    IF es = <<>> THEN st
    ELSE LET e == Head(es)
             skip == \/ ~IsSignificant(e, thr)        \* line 57
                     \/ e.id \in st.ledger            \* line 61
                     \/ e.id \in bad                  \* line 103
             next == IF skip THEN st
                     ELSE [ledger  |-> LedgerAdd(st.ledger, e.id),
                           emitted |-> [st.emitted EXCEPT ![e.id] = @ + 1]]
         IN  NotifyEach(Tail(es), thr, bad, next)

(***************************************************************************)
(* refreshData / fetchEarthquakes / fetchWithRetry as tasks                *)
(***************************************************************************)
\* Lines 81, 90, 94, 101 and 105 all throw into the catch of line 148 and
\* are handled alike; an error is identified by the attempt that threw it.
NoError == 0

\* A refreshData invocation.  pc is where it is suspended:
\*   "fetch"  await fetch(url) / response.json()       earthquakeService.ts 88-99
\*   "delay"  await this.delay(...)                     earthquakeService.ts 152
\*   "save"   await indexedDBService.saveEarthquakes    earthquakeService.ts 44
\*   "getAll" await indexedDBService.getAllEarthquakes  earthquakeService.ts 55
\*   "perm"   await this.requestPermission()            part_010 138
\*   "done"   refreshData has returned
\* attempt, error, delayMs and earthquakes are the locals of fetchWithRetry
\* and fetchEarthquakes, sig is significantEarthquakes.
\* The other fields are history, kept for an observed invocation only:
\* src says where the returned list came from, before and prevSrc are the
\* Snapshot when the call began, snap is the list this call assigned to
\* currentEarthquakes, refused says the policy evaluation ended at part_010
\* line 140, threw holds the ids whose Notification constructor threw, fed
\* is the feature list of the attempt that succeeded, saved and read say how
\* the invocation's IndexedDB write and read ended.  For a watched
\* invocation, called lists the consumers invoked so far and failing holds
\* those that throw when called.  region is the current region when the
\* call began.  For a displayed invocation the displays are recorded in
\* shown; for a followed one, given holds the list each of its consumers was
\* passed, in the order of the calls; both keep src and snap.  later says
\* that the invocation began while a followed one was fetching.
IdleRun ==
    [pc |-> "idle", attempt |-> 0, error |-> NoError, delayMs |-> 0,
     earthquakes |-> <<>>, sig |-> <<>>,
     observed |-> FALSE, src |-> "none", before |-> <<>>, prevSrc |-> "none",
     snap |-> <<>>, refused |-> FALSE, threw |-> {},
     fed |-> <<>>, saved |-> "none", read |-> "none",
     watched |-> FALSE, called |-> <<>>, failing |-> {}, region |-> "none",
     displayed |-> FALSE, followed |-> FALSE, given |-> <<>>, later |-> FALSE]

\* The invocations are interchangeable, so they are kept as a bag; Put
\* replaces the record old of an invocation by new (old = IdleRun: a new
\* invocation).  An invocation that has returned stays in the bag, for
\* inspection, only when it is observed, displayed or followed.
Inspected(rec) == rec.observed \/ rec.displayed \/ rec.followed

Put(old, new) ==
    LET rest == IF old = IdleRun THEN run ELSE run (-) SetToBag({old})
    IN  IF new.pc = "done" /\ ~Inspected(new) THEN rest
        ELSE rest (+) SetToBag({new})

InFlight == BagToSet(run)

IdsOf(es) == {es[i].id : i \in 1..Len(es)}

\* line 148: the error caught by this attempt's catch block
CaughtError(attempt) == attempt

\* main.ts lines 757-791: the consumers of the Snapshot, in the order
\* refreshData calls them; they are given currentEarthquakes
\* (applyFiltersAndSort reads it from the module variables).
SyncConsumers ==
    <<"updateDashboard", "applyFiltersAndSort", "addEarthquakeMarkers",
      "checkForAlerts", "notifyMultipleEarthquakes">>

LastConsumers == <<"updateVisualizations">>

\* notifyMultipleEarthquakes catches whatever is thrown inside it
\* (part_010 lines 113, 151-153); every other consumer may throw.
MayThrow ==
    {"updateDashboard", "applyFiltersAndSort", "addEarthquakeMarkers",
     "checkForAlerts", "updateVisualizations"}

RECURSIVE RunConsumersUnguarded(_, _, _)
RunConsumersUnguarded(names, throwing, log) ==
    IF names = <<>> THEN log
    ELSE IF log # <<>> /\ log[Len(log)] \in throwing THEN log
    ELSE RunConsumersUnguarded(Tail(names), throwing, Append(log, Head(names)))

\* main.ts lines 757-791: each consumer is called inside its own try/catch,
\* so one that throws (its name is in throwing) is logged and the next is
\* called; log lists the consumers called.
RECURSIVE RunConsumers(_, _, _)
RunConsumers(names, throwing, log) ==
    IF names = <<>> THEN log
    ELSE RunConsumers(Tail(names), throwing, Append(log, Head(names)))

\* main.ts lines 803-808: updateDashboard returns at once when it is given
\* no earthquakes, and the counters stay as they were
UpdateDashboard(old, earthquakes) ==
    IF Len(earthquakes) = 0 THEN old ELSE earthquakes

\* main.ts lines 1091-1096: so does updateVisualizations with the charts
UpdateVisualizations(old, earthquakes) ==
    IF Len(earthquakes) = 0 THEN old ELSE earthquakes

\* main.ts lines 757-785: the displays after the consumers that refreshData
\* calls before its await were given earthquakes
AfterSync(sh, earthquakes) ==
    [sh EXCEPT !.stats = UpdateDashboard(@, earthquakes),
               !.list = earthquakes, !.markers = earthquakes]

\* main.ts line 789: updateVisualizations(earthquakes)
AfterCharts(sh, earthquakes) ==
    [sh EXCEPT !.charts = UpdateVisualizations(@, earthquakes)]

\* history of a followed invocation: updateVisualizations was passed earthquakes
Charted(rec, earthquakes) ==
    IF rec.followed THEN [rec EXCEPT !.given = Append(@, earthquakes)] ELSE rec

\* main.ts lines 787-794: notifyMultipleEarthquakes has returned;
\* updateVisualizations is called and refreshData ends.
Finished(rec) ==
    [rec EXCEPT !.pc = "done", !.sig = <<>>,
                !.called = IF rec.watched
                           THEN RunConsumers(LastConsumers, rec.failing, rec.called)
                           ELSE <<>>]

\* part_010 lines 144-150 and main.ts lines 787-794: the notification loop
\* with permission granted, then the rest of refreshData.
FinishNotified(old, rec, bad) ==
    LET st == NotifyEach(rec.sig, threshold, bad,
                         [ledger |-> notifiedEarthquakes, emitted |-> emitted])
    IN  /\ notifiedEarthquakes' = st.ledger
        /\ emitted' = st.emitted
        /\ apiStatus' = "online"
        /\ run' = Put(old, [Finished(rec) EXCEPT
                                !.threw = IF rec.observed THEN bad ELSE {}])

\* main.ts lines 750-794 and part_010 lines 112-142: the list returned by
\* fetchEarthquakes is assigned to currentEarthquakes and handed to the
\* notifier, which filters it and either asks for permission (suspending),
\* or notifies, or returns; refreshData then sets the api status.
\* rec0 is the invocation's record, src the origin of result.
Publish(old, rec0, result, src) ==
    \E throwing \in (IF rec0.watched THEN SUBSET MayThrow ELSE { {} }) :
    LET sig == SignificantEarthquakes(result, threshold, notifiedEarthquakes)
        rec == [rec0 EXCEPT !.attempt = 0, !.error = NoError, !.delayMs = 0,
                            !.earthquakes = <<>>,
                            !.src = IF Inspected(rec0) THEN src ELSE "none",
                            !.snap = IF Inspected(rec0) THEN result ELSE <<>>,
                            !.failing = throwing,
                            !.given = IF rec0.followed
                                      THEN [i \in 1..Len(SyncConsumers) |-> result]
                                      ELSE <<>>,
                            !.called = IF rec0.watched
                                       THEN RunConsumers(SyncConsumers, throwing, <<>>)
                                       ELSE <<>>]
    IN  /\ currentEarthquakes' = result
        /\ snapshotSrc' = IF rec0.observed THEN src ELSE snapshotSrc
        /\ overtaken' = IF rec0.followed THEN FALSE
                        ELSE IF src = "net" /\ rec0.later /\ \E r \in InFlight :
                                    r.followed /\ r.pc \in {"fetch", "delay"}
                        THEN TRUE
                        ELSE overtaken
        /\ IF sig = <<>>
           THEN /\ run' = Put(old, Finished(Charted(rec, result)))
                /\ apiStatus' = "online"
                /\ shown' = IF rec0.displayed
                            THEN AfterCharts(AfterSync(shown, result), result) ELSE shown
                /\ UNCHANGED <<permission, notifiedEarthquakes, emitted>>
           ELSE IF permission = "granted"
           THEN /\ \E bad \in SUBSET IdsOf(sig) :
                       FinishNotified(old, Charted([rec EXCEPT !.sig = sig], result), bad)
                /\ shown' = IF rec0.displayed
                            THEN AfterCharts(AfterSync(shown, result), result) ELSE shown
                /\ UNCHANGED permission
           ELSE /\ run' = Put(old, [rec EXCEPT !.pc = "perm", !.sig = sig])
                /\ shown' = IF rec0.displayed THEN AfterSync(shown, result) ELSE shown
                /\ UNCHANGED <<apiStatus, permission, notifiedEarthquakes, emitted>>

\* earthquakeService.ts line 35: the 60 s freshness window
WithinCacheDuration == sinceLastFetch < cacheDuration /\ Len(cachedData) > 0

\* main.ts line 750 and earthquakeService.ts lines 31-40, 78-88: refreshData
\* is called; fetchEarthquakes answers from memory or sends the first
\* attempt.  rec is the fresh invocation record.
RefreshCalled(rec) ==
    /\ IF WithinCacheDuration
       THEN Publish(IdleRun, rec, cachedData, "memo")
       ELSE /\ run' = Put(IdleRun, [rec EXCEPT !.pc = "fetch", !.attempt = 1])
            /\ UNCHANGED <<currentEarthquakes, apiStatus, permission,
                           notifiedEarthquakes, emitted, snapshotSrc, shown,
                                  overtaken>>
    /\ UNCHANGED <<cachedData, sinceLastFetch, db, features, rawEarthquakes,
                   refiltered, puts, now, eviction, currentRegion,
                   communityVars, voteVars, adminVars, limitVars,
                   lastNetwork>>

\* main.ts lines 723-727 and 1174-1181: the 60 s timer or the refresh button
\* calls refreshData, whatever else is in flight.
Refresh ==
    /\ BagCardinality(run) < NumRuns
    /\ RefreshCalled([IdleRun EXCEPT !.later = \E r \in InFlight :
                                          r.followed /\ r.pc \in {"fetch", "delay"}])

\* The same call made while no other invocation is in flight, observed.
RefreshAlone ==
    /\ run = EmptyBag
    /\ RefreshCalled([IdleRun EXCEPT !.observed = TRUE,
                                     !.before = currentEarthquakes,
                                     !.prevSrc = snapshotSrc,
                                     !.region = currentRegion])

\* The same call, observed, with its consumers watched.
RefreshWatched ==
    /\ run = EmptyBag
    /\ RefreshCalled([IdleRun EXCEPT !.observed = TRUE, !.watched = TRUE,
                                     !.before = currentEarthquakes,
                                     !.prevSrc = snapshotSrc,
                                     !.region = currentRegion])

\* The same call made while no other invocation is in flight, displayed.
RefreshDisplayed ==
    /\ run = EmptyBag
    /\ RefreshCalled([IdleRun EXCEPT !.displayed = TRUE])

\* The same call, followed, whatever else is in flight but another followed
\* one.
RefreshFollowed ==
    /\ BagCardinality(run) < NumRuns
    /\ \A rec \in InFlight : ~ rec.followed
    /\ RefreshCalled([IdleRun EXCEPT !.followed = TRUE])

\* earthquakeService.ts lines 88-147 and 42-50: the response is parsed,
\* filtered and sorted; a non-empty result is written through to IndexedDB.
FetchSucceeds(rec, fs) ==
    /\ rec.pc = "fetch"
    /\ InWeek(fs, now)
    /\ LET earthquakes == ParseFeed(fs)
           got == [rec EXCEPT !.fed = IF rec.observed THEN fs ELSE <<>>]
       IN  /\ cachedData' = earthquakes
           /\ sinceLastFetch' = 0
           /\ lastNetwork' = IF rec.observed THEN earthquakes ELSE lastNetwork
           /\ IF Len(earthquakes) > 0
              THEN /\ run' = Put(rec, [got EXCEPT !.pc = "save", !.attempt = 0,
                                                   !.error = NoError,
                                                   !.earthquakes = earthquakes])
                   /\ UNCHANGED <<currentEarthquakes, apiStatus, permission,
                                  notifiedEarthquakes, emitted, snapshotSrc, shown,
                                  overtaken>>
              ELSE Publish(rec, got, earthquakes, "net")
    /\ UNCHANGED <<db, features, rawEarthquakes,
                   refiltered, puts, now, eviction, currentRegion,
                   communityVars, voteVars, adminVars, limitVars>>

\* earthquakeService.ts lines 148-157: the attempt failed; retry after a
\* delay, or rethrow into fetchEarthquakes, which reads IndexedDB (line 55).
FetchFails(rec) ==
    /\ rec.pc = "fetch"
    /\ LET error == CaughtError(rec.attempt)
       IN  IF ShouldRetry(rec.attempt)
           THEN run' = Put(rec, [rec EXCEPT !.pc = "delay", !.error = error,
                                             !.delayMs = RetryDelayFor(rec.attempt)])
           ELSE run' = Put(rec, [rec EXCEPT !.pc = "getAll", !.error = error])
    /\ UNCHANGED <<cachedData, sinceLastFetch, db, currentEarthquakes, apiStatus,
                   permission, notifiedEarthquakes, emitted, snapshotSrc,
                   features, rawEarthquakes,
                   refiltered, puts, now, eviction, currentRegion,
                   communityVars, voteVars, adminVars, limitVars, shown,
                   lastNetwork, overtaken>>

\* earthquakeService.ts line 153: the timer fired, the next attempt is sent
DelayElapsed(rec) ==
    /\ rec.pc = "delay"
    /\ run' = Put(rec, [rec EXCEPT !.pc = "fetch", !.attempt = @ + 1, !.delayMs = 0])
    /\ UNCHANGED <<cachedData, sinceLastFetch, db, currentEarthquakes, apiStatus,
                   permission, notifiedEarthquakes, emitted, snapshotSrc,
                   features, rawEarthquakes,
                   refiltered, puts, now, eviction, currentRegion,
                   communityVars, voteVars, adminVars, limitVars, shown,
                   lastNetwork, overtaken>>

\* part_004 lines 38-61 and earthquakeService.ts lines 44-50: the write
\* transaction completes (ok) or fails (logged); the list is returned.
SaveCompletes(rec, ok) ==
    /\ rec.pc = "save"
    /\ db' = IF ok THEN SaveEarthquakes(db, rec.earthquakes) ELSE db
    /\ Publish(rec, [rec EXCEPT !.saved = IF ~rec.observed THEN "none"
                                          ELSE IF ok THEN "ok" ELSE "failed"],
               rec.earthquakes, "net")
    /\ UNCHANGED <<cachedData, sinceLastFetch, features, rawEarthquakes,
                   refiltered, puts, now, eviction, currentRegion,
                   communityVars, voteVars, adminVars, limitVars,
                   lastNetwork>>

\* part_004 lines 63-84 and earthquakeService.ts lines 54-75: the read
\* answers (ok) or fails; a non-empty answer replaces cachedData and is
\* returned, otherwise cachedData is returned ([] when it is empty).
GetAllCompletes(rec, ok) ==
    /\ rec.pc = "getAll"
    /\ LET cachedEarthquakes == ReadOrNothing(ok, db)
           got == [rec EXCEPT !.read = IF ~rec.observed THEN "none"
                                       ELSE IF ok THEN "ok" ELSE "failed"]
       IN  IF Len(cachedEarthquakes) > 0
           THEN /\ cachedData' = cachedEarthquakes
                /\ Publish(rec, got, cachedEarthquakes, "db")
           ELSE /\ UNCHANGED cachedData
                /\ Publish(rec, got, cachedData, "stale")
    /\ UNCHANGED <<sinceLastFetch, db, features, rawEarthquakes,
                   refiltered, puts, now, eviction, currentRegion,
                   communityVars, voteVars, adminVars, limitVars,
                   lastNetwork>>

\* part_010 lines 31-34, 138-150: the permission request is answered
PermissionAnswered(rec, answer) ==
    /\ rec.pc = "perm"
    /\ permission' = answer
    /\ IF answer = "granted"
       THEN \E bad \in SUBSET IdsOf(rec.sig) :
                FinishNotified(rec, Charted(rec, currentEarthquakes), bad)
       ELSE /\ run' = Put(rec, [Finished(Charted(rec, currentEarthquakes))
                                   EXCEPT !.refused = rec.observed])
            /\ apiStatus' = "online"
            /\ UNCHANGED <<notifiedEarthquakes, emitted>>
    /\ shown' = IF rec.displayed THEN AfterCharts(shown, currentEarthquakes) ELSE shown
    /\ UNCHANGED <<cachedData, sinceLastFetch, db, currentEarthquakes, snapshotSrc,
                   features, rawEarthquakes,
                   refiltered, puts, now, eviction, currentRegion,
                   communityVars, voteVars, adminVars, limitVars,
                   lastNetwork, overtaken>>

\* main.ts lines 1236-1248: the enable-notifications button
EnableNotifications(answer) ==
    /\ permission # "granted"                         \* part_010 line 27
    /\ permission' = answer
    /\ UNCHANGED <<cachedData, sinceLastFetch, db, currentEarthquakes, apiStatus,
                   notifiedEarthquakes, emitted, run, snapshotSrc,
                   features, rawEarthquakes,
                   refiltered, puts, now, eviction, currentRegion,
                   communityVars, voteVars, adminVars, limitVars, shown,
                   lastNetwork, overtaken>>

\* the caller of refreshData resumes; the invocation is over
RefreshReturns(rec) ==
    /\ rec.pc = "done"
    /\ run' = run (-) SetToBag({rec})
    /\ UNCHANGED <<cachedData, sinceLastFetch, db, currentEarthquakes, apiStatus,
                   permission, notifiedEarthquakes, emitted, snapshotSrc,
                   features, rawEarthquakes,
                   refiltered, puts, now, eviction, currentRegion,
                   communityVars, voteVars, adminVars, limitVars, shown,
                   lastNetwork, overtaken>>

\* cacheDuration or more passes since the last successful fetch
TimePasses ==
    /\ sinceLastFetch < cacheDuration
    /\ sinceLastFetch' = cacheDuration
    /\ UNCHANGED <<cachedData, db, currentEarthquakes, apiStatus, permission,
                   notifiedEarthquakes, emitted, run, snapshotSrc,
                   features, rawEarthquakes,
                   refiltered, puts, now, eviction, currentRegion,
                   communityVars, voteVars, adminVars, limitVars, shown,
                   lastNetwork, overtaken>>

\* main.ts lines 729-731 and part_004 lines 108-120: the hourly timer calls
\* clearOldData(30), which computes the cutoff and opens its transaction
EvictStarts ==
    /\ eviction.pc = "idle"
    /\ eviction' = [pc |-> "open", cutoffTime |-> CutoffTime(now, olderThanDays),
                    last |-> "none"]
    /\ UNCHANGED <<cachedData, sinceLastFetch, db, currentEarthquakes, apiStatus,
                   permission, notifiedEarthquakes, emitted, run, snapshotSrc,
                   features, rawEarthquakes, refiltered, puts, now, currentRegion,
                   communityVars, voteVars, adminVars, limitVars, shown,
                   lastNetwork, overtaken>>

\* part_004 lines 120-137 and main.ts lines 732-734: the transaction
\* completes, or fails (logged by the timer callback)
EvictCompletes(ok) ==
    /\ eviction.pc = "open"
    /\ db' = IF ok THEN ClearOld(db, eviction.cutoffTime) ELSE db
    /\ eviction' = [pc |-> "idle", cutoffTime |-> 0,
                    last |-> IF ok THEN "ok" ELSE "failed"]
    /\ UNCHANGED <<cachedData, sinceLastFetch, currentEarthquakes, apiStatus,
                   permission, notifiedEarthquakes, emitted, run, snapshotSrc,
                   features, rawEarthquakes, refiltered, puts, now, currentRegion,
                   communityVars, voteVars, adminVars, limitVars, shown,
                   lastNetwork, overtaken>>

\* Days pass while nothing is in flight (a refresh and a transaction last
\* far less than the 23 days between the feed's week and the retention).
ClockAdvances(t) ==
    /\ t > now
    /\ run = EmptyBag /\ eviction.pc = "idle"
    /\ now' = t
    /\ sinceLastFetch' = cacheDuration
    /\ UNCHANGED <<cachedData, db, currentEarthquakes, apiStatus, permission,
                   notifiedEarthquakes, emitted, run, snapshotSrc,
                   features, rawEarthquakes, refiltered, puts, eviction, currentRegion,
                   communityVars, voteVars, adminVars, limitVars, shown,
                   lastNetwork, overtaken>>

\* firebase.ts lines 46-101: the bounds of two of the named regions
Regions ==
    ("southern-leyte" :> [minLat |-> 98,  maxLat |-> 108, minLng |-> 1245, maxLng |-> 1255]) @@
    ("luzon"          :> [minLat |-> 120, maxLat |-> 190, minLng |-> 1195, maxLng |-> 1225])

RegionIds == DOMAIN Regions

\* the values the region selector may hand over; "elsewhere" names no region
SelectorValues == RegionIds \cup {"elsewhere"}

\* firebase.ts lines 126-128: getRegion
GetRegion(id) == IF id \in RegionIds THEN id ELSE "none"

\* firebase.ts lines 140-151 and 209-212: the region selector changes; an
\* unknown id changes nothing (line 142)
SetCurrentRegion(regionId) ==
    /\ currentRegion' = IF GetRegion(regionId) = "none" THEN currentRegion
                        ELSE GetRegion(regionId)
    /\ UNCHANGED <<cachedData, sinceLastFetch, db, currentEarthquakes, apiStatus,
                   permission, notifiedEarthquakes, emitted, run, snapshotSrc,
                   features, rawEarthquakes, refiltered, puts, now, eviction,
                   communityVars, voteVars, adminVars, limitVars, shown,
                   lastNetwork, overtaken>>

Permissions == {"default", "granted", "denied"}

ADMIN_EMAIL == "admin@johnrish.website"

\* what the collections hold to begin with: a news post, a report, a comment
StoredDocuments ==
    {[collection |-> "communityNews", id |-> "n1"],
     [collection |-> "earthquakeReports", id |-> "r1"],
     [collection |-> "earthquakeComments", id |-> "c1"]}

\* the users who vote, each in a browser of their own
Users == {"u1", "u2"}

\* communityService.ts lines 20-22 and an empty collection
InitCommunity ==
    /\ currentUser = "none"
    /\ userPostsToday = 0
    /\ communityNews = EmptyBag
    /\ today = 1
    /\ postCalls = EmptyBag
    /\ lastPost = [outcome |-> "none", valid |-> FALSE, madeToday |-> 0]

\* a report as submitReport stores it (communityService.ts lines 249-260)
InitVotes ==
    /\ report = [upvotes |-> 0, downvotes |-> 0, votedBy |-> [u \in Users |-> "none"]]
    /\ voteCalls = EmptyBag
    /\ votesMade = 0

\* part_012 lines 20-22; nobody is signed in and the listeners know it
InitAdmin ==
    /\ authUser = "none"
    /\ authNotified = TRUE
    /\ adminUser = "none"
    /\ isAdmin = FALSE
    /\ adminCalls = EmptyBag
    /\ documents = StoredDocuments
    /\ lastAdmin = [op |-> "none", byAdmin |-> FALSE, outcome |-> "none"]

\* nothing stored under rateLimit_email_subscription
InitLimit ==
    /\ attempts = <<>>
    /\ clockMs = 0
    /\ allowed = <<>>
    /\ refusals = 0

Init ==
    /\ cachedData = <<>>
    /\ sinceLastFetch = cacheDuration      \* lastFetch = 0
    /\ db = {}
    /\ currentEarthquakes = <<>>
    /\ apiStatus = "unset"
    /\ permission \in Permissions          \* part_010 line 14
    /\ notifiedEarthquakes = {}
    /\ emitted = [i \in Ids |-> 0]
    /\ run = EmptyBag
    /\ snapshotSrc = "none"
    /\ features = <<>>
    /\ rawEarthquakes = <<>>
    /\ refiltered = <<>>
    /\ puts = [last |-> <<>>, latest |-> {}]
    /\ now = StartClock
    /\ eviction = [pc |-> "idle", cutoffTime |-> 0, last |-> "none"]
    /\ currentRegion = "southern-leyte"    \* firebase.ts line 109, nothing saved
    /\ shown = [stats |-> <<>>, list |-> <<>>, markers |-> <<>>, charts |-> <<>>]
    /\ lastNetwork = <<>>
    /\ overtaken = FALSE
    /\ InitCommunity
    /\ InitVotes
    /\ InitAdmin
    /\ InitLimit

Steps ==
    \/ \E rec \in InFlight : \E fs \in Feeds : FetchSucceeds(rec, fs)
    \/ \E rec \in InFlight : FetchFails(rec)
    \/ \E rec \in InFlight : DelayElapsed(rec)
    \/ \E rec \in InFlight : \E ok \in BOOLEAN : SaveCompletes(rec, ok)
    \/ \E rec \in InFlight : \E ok \in BOOLEAN : GetAllCompletes(rec, ok)
    \/ \E rec \in InFlight : \E answer \in Permissions : PermissionAnswered(rec, answer)
    \/ \E answer \in Permissions : EnableNotifications(answer)
    \/ TimePasses

\* Overlapping refreshes, as the timer and the button allow.
Next == Refresh \/ Steps

Spec == Init /\ [][Next]_vars

\* One refresh at a time, observed.
NextSeq == RefreshAlone \/ (\E rec \in InFlight : RefreshReturns(rec)) \/ Steps

SpecSeq == Init /\ [][NextSeq]_vars

\* One refresh at a time, observed, where every network request is answered
\* or fails, every storage request completes or fails and the retry timer
\* fires.  Nothing makes the user answer a permission prompt.
NetworkAnswers ==
    \E rec \in InFlight : (\E fs \in Feeds : FetchSucceeds(rec, fs)) \/ FetchFails(rec)

TimerFires == \E rec \in InFlight : DelayElapsed(rec)

StorageAnswers ==
    \E rec \in InFlight : \E ok \in BOOLEAN : SaveCompletes(rec, ok) \/ GetAllCompletes(rec, ok)

SpecLive ==
    /\ Init /\ [][NextSeq]_vars
    /\ WF_vars(NetworkAnswers) /\ WF_vars(TimerFires) /\ WF_vars(StorageAnswers)

\* One refresh at a time, with the hourly eviction and the passing of days.
NextEvict ==
    \/ NextSeq
    \/ EvictStarts
    \/ \E ok \in BOOLEAN : EvictCompletes(ok)
    \/ \E t \in Clocks : ClockAdvances(t)

SpecEvict == Init /\ [][NextEvict]_vars

\* One refresh at a time, observed, with the region selector.
NextRegion == NextSeq \/ (\E id \in SelectorValues : SetCurrentRegion(id))

SpecRegion == Init /\ [][NextRegion]_vars

\* One refresh at a time, its consumers watched.
NextConsumers == RefreshWatched \/ (\E rec \in InFlight : RefreshReturns(rec)) \/ Steps

SpecConsumers == Init /\ [][NextConsumers]_vars

\* One refresh at a time, displayed.
NextDisplays == RefreshDisplayed \/ (\E rec \in InFlight : RefreshReturns(rec)) \/ Steps

SpecDisplays == Init /\ [][NextDisplays]_vars

\* Overlapping refreshes, one of them followed.
NextOverlap ==
    \/ RefreshFollowed
    \/ Refresh
    \/ \E rec \in InFlight : RefreshReturns(rec)
    \/ Steps

SpecOverlap == Init /\ [][NextOverlap]_vars

(***************************************************************************)
(* The geo filter on its own: fetchWithRetry lines 108-139 applied to any  *)
(* feed over a catalog that has a feature beyond each edge of the region.  *)
(***************************************************************************)
FilterCatalog ==
    Catalog \cup
    { Feature(3, 55, 30, 108, 1245, TRUE),    \* on the other two edges
      Feature(7, 20, 70, 97,  1250, TRUE),    \* latitude below minLat
      Feature(8, 20, 80, 100, 1256, TRUE) }   \* longitude above maxLng

FilterFeeds == FeedsOver(FilterCatalog, MaxFilterLen)

\* earthquakeService.ts lines 108-139 on the response fs (one response per
\* behaviour)
FilterFeed(fs) ==
    /\ features = <<>> /\ refiltered = <<>>
    /\ features' = fs
    /\ rawEarthquakes' = GeoFilter(fs)
    /\ UNCHANGED <<cachedData, sinceLastFetch, db, currentEarthquakes, apiStatus,
                   permission, notifiedEarthquakes, emitted, run, snapshotSrc,
                   refiltered, puts, now, eviction, currentRegion,
                   communityVars, voteVars, adminVars, limitVars, shown,
                   lastNetwork, overtaken>>

\* part_006 lines 2-31: the earthquake e written as a feature again, with
\* geometry.coordinates = [longitude, latitude, depth]
AsFeature(e) == Feature(e.id, e.mag, e.time, e.lat, e.lng, TRUE)

AsFeatures(es) == [i \in 1..Len(es) |-> AsFeature(es[i])]

\* earthquakeService.ts lines 108-139 applied to its own result
FilterAgain ==
    /\ refiltered = <<>>
    /\ refiltered' = << GeoFilter(AsFeatures(rawEarthquakes)) >>
    /\ UNCHANGED <<cachedData, sinceLastFetch, db, currentEarthquakes, apiStatus,
                   permission, notifiedEarthquakes, emitted, run, snapshotSrc,
                   features, rawEarthquakes, puts, now, eviction, currentRegion,
                   communityVars, voteVars, adminVars, limitVars, shown,
                   lastNetwork, overtaken>>

NextFilter == (\E fs \in FilterFeeds : FilterFeed(fs)) \/ FilterAgain

SpecFilter == Init /\ [][NextFilter]_vars

(***************************************************************************)
(* The cache store on its own: saveEarthquakes (part_004 lines 38-61)      *)
(* called with any list of earthquakes, among them two versions of one id. *)
(***************************************************************************)
\* the earthquake e as a later feed gives it, its magnitude revised
Revised(e) == [e EXCEPT !.mag = @ + 5]

PutCatalog ==
    LET es == {ToEarthquake(f) : f \in {g \in Catalog : Kept(g)}}
    IN  es \cup {Revised(e) : e \in es}

PutLists == UNION { FeedsOfLen(n, PutCatalog) : n \in 0..MaxPutLen }

\* part_004 lines 38-61: saveEarthquakes(es); a transaction that fails is
\* aborted and leaves the store as it was.  puts is history: the list of
\* the last call that took effect and, for every id, the earthquake that
\* the latest such call containing the id gave for it (the last one of the
\* list if the list has the id more than once).
SaveCalled(es, ok) ==
    /\ db' = IF ok THEN SaveEarthquakes(db, es) ELSE db
    /\ puts' = IF ~ok THEN [puts EXCEPT !.last = <<>>]
               ELSE [last   |-> es,
                     latest |-> {e \in puts.latest : e.id \notin IdsOf(es)} \cup
                                {es[i] : i \in {k \in 1..Len(es) :
                                    \A j \in (k + 1)..Len(es) : es[j].id # es[k].id}}]
    /\ UNCHANGED <<cachedData, sinceLastFetch, currentEarthquakes, apiStatus,
                   permission, notifiedEarthquakes, emitted, run, snapshotSrc,
                   features, rawEarthquakes, refiltered, now, eviction, currentRegion,
                   communityVars, voteVars, adminVars, limitVars, shown,
                   lastNetwork, overtaken>>

NextPut == \E es \in PutLists : \E ok \in BOOLEAN : SaveCalled(es, ok)

SpecPut == Init /\ [][NextPut]_vars

(***************************************************************************)
(* Community news: CommunityService of one signed-in user.  A call of     *)
(* postNews runs to its await of addDoc in one step; the answer of         *)
(* Firestore is a step of its own, and so is the answer to the query of    *)
(* checkUserPostsToday.  A text is the pair of its blank margin and its    *)
(* other characters, which is all that trim() and length look at.          *)
(***************************************************************************)
Days == 1..MaxDay

Contents == [blank : {0, 2}, text : {0, 9, 10, 500, 501}]

Length(content) == content.blank + content.text

\* String.prototype.trim: the blank margin goes
Trim(content) == [blank |-> 0, text |-> content.text]

ValidContent(content) ==
    /\ Length(content) > 0
    /\ ~ (Length(Trim(content)) < minContent \/ Length(Trim(content)) > maxContent)

NewsDoc(uid, day) == [userId |-> uid, day |-> day]

\* the size of the query of checkUserPostsToday: where userId == uid and
\* timestamp >= todayTimestamp
PostsSince(uid, day) ==
    LET matching == {doc \in BagToSet(communityNews) : doc.userId = uid /\ doc.day >= day}
        RECURSIVE Sum(_)
        Sum(docs) == IF docs = {} THEN 0
                     ELSE LET doc == CHOOSE x \in docs : TRUE
                          IN  CopiesIn(doc, communityNews) + Sum(docs \ {doc})
    IN  Sum(matching)

PostsOn(uid, day) == CopiesIn(NewsDoc(uid, day), communityNews)

\* the posts of the day the user has sent and Firestore has not answered yet
PostsSent(uid, day) == CopiesIn([op |-> "post", uid |-> uid, day |-> day], postCalls)

CanPostToday == userPostsToday < MAX_POSTS_PER_DAY

\* onAuthStateChanged callback of init with a user: checkUserPostsToday up to
\* its await of getDocs
AuthStateChanged ==
    /\ currentUser = "none"
    /\ currentUser' = "u1"
    /\ postCalls' = postCalls (+) SetToBag({[op |-> "check", uid |-> "u1", day |-> today]})
    /\ UNCHANGED <<userPostsToday, communityNews, today, lastPost>>
    /\ UNCHANGED <<coreVars, voteVars, adminVars, limitVars>>

\* the answer to getDocs of checkUserPostsToday; an error leaves the counter
GetDocsCompletes(call, ok) ==
    /\ call \in BagToSet(postCalls)
    /\ call.op = "check"
    /\ postCalls' = postCalls (-) SetToBag({call})
    /\ userPostsToday' = IF ok THEN PostsSince(call.uid, call.day) ELSE userPostsToday
    /\ UNCHANGED <<currentUser, communityNews, today, lastPost>>
    /\ UNCHANGED <<coreVars, voteVars, adminVars, limitVars>>

\* history: the answer and what the collection held for the day of the call
Answered(outcome, content) ==
    [outcome |-> outcome, valid |-> ValidContent(content),
     madeToday |-> IF currentUser = "none" THEN 0
                   ELSE PostsOn(currentUser, today) + PostsSent(currentUser, today)]

\* postNews up to its await of addDoc
PostNews(content) ==
    /\ BagCardinality(postCalls) < MaxPostCalls
    /\ IF currentUser = "none"
       THEN /\ lastPost' = Answered("unauthenticated", content)
            /\ UNCHANGED postCalls
       ELSE IF ~ CanPostToday
       THEN /\ lastPost' = Answered("limit", content)
            /\ UNCHANGED postCalls
       ELSE IF ~ ValidContent(content)
       THEN /\ lastPost' = Answered("invalid", content)
            /\ UNCHANGED postCalls
       ELSE /\ lastPost' = Answered("sent", content)
            /\ postCalls' = postCalls (+)
                   SetToBag({[op |-> "post", uid |-> currentUser, day |-> today]})
    /\ UNCHANGED <<currentUser, userPostsToday, communityNews, today>>
    /\ UNCHANGED <<coreVars, voteVars, adminVars, limitVars>>

\* the answer to addDoc: the document is stored and the counter goes up, or
\* 'Failed to save news post'
AddDocCompletes(call, ok) ==
    /\ call \in BagToSet(postCalls)
    /\ call.op = "post"
    /\ postCalls' = postCalls (-) SetToBag({call})
    /\ IF ok
       THEN /\ BagCardinality(communityNews) < MaxNews
            /\ communityNews' = communityNews (+) SetToBag({NewsDoc(call.uid, call.day)})
            /\ userPostsToday' = userPostsToday + 1
       ELSE UNCHANGED <<communityNews, userPostsToday>>
    /\ UNCHANGED <<currentUser, today, lastPost>>
    /\ UNCHANGED <<coreVars, voteVars, adminVars, limitVars>>

\* midnight passes
DayChanges ==
    /\ today < MaxDay
    /\ today' = today + 1
    /\ UNCHANGED <<currentUser, userPostsToday, communityNews, postCalls, lastPost>>
    /\ UNCHANGED <<coreVars, voteVars, adminVars, limitVars>>

\* the page is loaded again: a new CommunityService
PageLoaded ==
    /\ postCalls = EmptyBag
    /\ currentUser # "none"
    /\ currentUser' = "none"
    /\ userPostsToday' = 0
    /\ UNCHANGED <<communityNews, today, postCalls, lastPost>>
    /\ UNCHANGED <<coreVars, voteVars, adminVars, limitVars>>

NextNews ==
    \/ AuthStateChanged
    \/ \E call \in BagToSet(postCalls), ok \in BOOLEAN : GetDocsCompletes(call, ok)
    \/ \E content \in Contents : PostNews(content)
    \/ \E call \in BagToSet(postCalls), ok \in BOOLEAN : AddDocCompletes(call, ok)
    \/ DayChanges
    \/ PageLoaded

SpecNews == Init /\ [][NextNews]_vars

(***************************************************************************)
(* Votes on one earthquake report: CommunityService.voteOnReport called by *)
(* two users, each in a browser of their own.  Firestore answers the query *)
(* with the document as it is then and applies the update when it arrives; *)
(* the calls of one user follow each other.                                *)
(***************************************************************************)
VoteTypes == {"up", "down"}

ReportIds == {"r1", "missing"}

\* lines 335-354: the fields updateDoc is given, from the copy that was read;
\* the counters are increment() transforms
Updates(reportData, uid, voteType) ==
    LET previousVote == reportData.votedBy[uid]
    IN  [votedBy   |-> [reportData.votedBy EXCEPT ![uid] = voteType],
         upvotes   |-> IF previousVote = "up" /\ voteType = "down" THEN -1
                       ELSE IF previousVote = "down" /\ voteType = "up" THEN 1
                       ELSE IF previousVote = "none" /\ voteType = "up" THEN 1
                       ELSE 0,
         downvotes |-> IF previousVote = "up" /\ voteType = "down" THEN 1
                       ELSE IF previousVote = "down" /\ voteType = "up" THEN -1
                       ELSE IF previousVote = "none" /\ voteType = "down" THEN 1
                       ELSE 0]

\* updateDoc applied to the stored document
UpdateDoc(stored, updates) ==
    [votedBy   |-> updates.votedBy,
     upvotes   |-> stored.upvotes + updates.upvotes,
     downvotes |-> stored.downvotes + updates.downvotes]

\* voteOnReport up to its await of getDocs
VoteOnReport(uid, reportId, voteType) ==
    /\ votesMade < MaxVotes
    /\ \A call \in BagToSet(voteCalls) : call.uid # uid
    /\ votesMade' = votesMade + 1
    /\ voteCalls' = voteCalls (+) SetToBag({[uid |-> uid, reportId |-> reportId,
                        voteType |-> voteType, pc |-> "getDocs", reportData |-> report]})
    /\ UNCHANGED report
    /\ UNCHANGED <<coreVars, communityVars, adminVars, limitVars>>

\* the answer to getDocs: 'Report not found', an error, or the copy from
\* which the update is built and sent
VoteRead(call, ok) ==
    /\ call \in BagToSet(voteCalls)
    /\ call.pc = "getDocs"
    /\ voteCalls' = IF ok /\ call.reportId = "r1"
                    THEN (voteCalls (-) SetToBag({call})) (+)
                         SetToBag({[call EXCEPT !.pc = "updateDoc", !.reportData = report]})
                    ELSE voteCalls (-) SetToBag({call})
    /\ UNCHANGED <<report, votesMade>>
    /\ UNCHANGED <<coreVars, communityVars, adminVars, limitVars>>

\* Firestore applies the update, or refuses it
VoteWritten(call, ok) ==
    /\ call \in BagToSet(voteCalls)
    /\ call.pc = "updateDoc"
    /\ voteCalls' = voteCalls (-) SetToBag({call})
    /\ report' = IF ok THEN UpdateDoc(report, Updates(call.reportData, call.uid, call.voteType))
                 ELSE report
    /\ UNCHANGED votesMade
    /\ UNCHANGED <<coreVars, communityVars, adminVars, limitVars>>

NextVotes ==
    \/ \E uid \in Users, reportId \in ReportIds, voteType \in VoteTypes :
           VoteOnReport(uid, reportId, voteType)
    \/ \E call \in BagToSet(voteCalls), ok \in BOOLEAN : VoteRead(call, ok)
    \/ \E call \in BagToSet(voteCalls), ok \in BOOLEAN : VoteWritten(call, ok)

SpecVotes == Init /\ [][NextVotes]_vars

(***************************************************************************)
(* The admin service (part_012).  Firebase Auth holds the signed-in user;  *)
(* a change of it is one step and the call of the onAuthStateChanged       *)
(* callback that tells AdminService of it is a later one.  An admin        *)
(* operation runs to its awaited Firestore write in one step.              *)
(***************************************************************************)
Emails == {"none", ADMIN_EMAIL, "anonymous"}

AdminOps == {"updateEarthquakeMagnitude", "deleteNewsPost", "deleteReport", "deleteComment"}

\* tenths: 5.0 and 11.0
Magnitudes == {50, 110}

ValidMagnitude(newMagnitude) == ~ (newMagnitude < 0 \/ newMagnitude > 100)

\* the document an admin operation is aimed at
Target(op) ==
    IF op = "deleteNewsPost" THEN [collection |-> "communityNews", id |-> "n1"]
    ELSE IF op = "deleteReport" THEN [collection |-> "earthquakeReports", id |-> "r1"]
    ELSE IF op = "deleteComment" THEN [collection |-> "earthquakeComments", id |-> "c1"]
    ELSE [collection |-> "earthquakeEdits", id |-> "e1"]

AdminCall(op, pc, by) == [op |-> op, pc |-> pc, by |-> by]

\* the test every admin operation starts with
AdminFlag == isAdmin

\* login (lines 53-69): signInWithEmailAndPassword succeeds for the admin
\* e-mail and the right password
Login(email, ok) ==
    /\ email = ADMIN_EMAIL
    /\ ok
    /\ authUser # ADMIN_EMAIL
    /\ authUser' = ADMIN_EMAIL
    /\ authNotified' = FALSE
    /\ UNCHANGED <<adminUser, isAdmin, adminCalls, documents, lastAdmin>>
    /\ UNCHANGED <<coreVars, communityVars, voteVars, limitVars>>

\* communityService.ts lines 46-48: signInAnonymously when nobody is signed in
SignInAnonymously ==
    /\ authUser = "none"
    /\ authUser' = "anonymous"
    /\ authNotified' = FALSE
    /\ UNCHANGED <<adminUser, isAdmin, adminCalls, documents, lastAdmin>>
    /\ UNCHANGED <<coreVars, communityVars, voteVars, limitVars>>

\* the onAuthStateChanged callback of init (lines 33-40)
OnAuthStateChanged ==
    /\ ~ authNotified
    /\ authNotified' = TRUE
    /\ adminUser' = authUser
    /\ isAdmin' = (authUser = ADMIN_EMAIL)
    /\ UNCHANGED <<authUser, adminCalls, documents, lastAdmin>>
    /\ UNCHANGED <<coreVars, communityVars, voteVars, limitVars>>

\* logout (lines 74-87) up to the moment signOut has taken effect
Logout(ok) ==
    /\ authUser # "none"
    /\ BagCardinality(adminCalls) < MaxAdminCalls
    /\ IF ok
       THEN /\ authUser' = "none"
            /\ authNotified' = FALSE
            /\ adminCalls' = adminCalls (+) SetToBag({AdminCall("logout", "signOut", adminUser)})
       ELSE UNCHANGED <<authUser, authNotified, adminCalls>>
    /\ UNCHANGED <<adminUser, isAdmin, documents, lastAdmin>>
    /\ UNCHANGED <<coreVars, communityVars, voteVars, limitVars>>

\* logout after await signOut (line 81)
LogoutReturns(call) ==
    /\ call \in BagToSet(adminCalls)
    /\ call.op = "logout"
    /\ adminCalls' = adminCalls (-) SetToBag({call})
    /\ isAdmin' = FALSE
    /\ UNCHANGED <<authUser, authNotified, adminUser, documents, lastAdmin>>
    /\ UNCHANGED <<coreVars, communityVars, voteVars, limitVars>>

\* updateEarthquakeMagnitude, deleteNewsPost, deleteReport, deleteComment up
\* to the awaited write
AdminOperation(op, newMagnitude) ==
    /\ BagCardinality(adminCalls) < MaxAdminCalls
    /\ LET byAdmin == authUser = ADMIN_EMAIL
       IN  IF ~ AdminFlag
           THEN /\ lastAdmin' = [op |-> op, byAdmin |-> byAdmin, outcome |-> "Unauthorized"]
                /\ UNCHANGED adminCalls
           ELSE IF op = "updateEarthquakeMagnitude" /\ ~ ValidMagnitude(newMagnitude)
           THEN /\ lastAdmin' = [op |-> op, byAdmin |-> byAdmin, outcome |-> "Invalid magnitude"]
                /\ UNCHANGED adminCalls
           ELSE /\ lastAdmin' = [op |-> op, byAdmin |-> byAdmin, outcome |-> "sent"]
                /\ adminCalls' = adminCalls (+) SetToBag({AdminCall(op,
                       IF op = "updateEarthquakeMagnitude" THEN "updateDoc" ELSE "deleteDoc",
                       adminUser)})
    /\ UNCHANGED <<authUser, authNotified, adminUser, isAdmin, documents>>
    /\ UNCHANGED <<coreVars, communityVars, voteVars, limitVars>>

\* the answer to deleteDoc
DeleteDocCompletes(call, ok) ==
    /\ call \in BagToSet(adminCalls)
    /\ call.pc = "deleteDoc"
    /\ adminCalls' = adminCalls (-) SetToBag({call})
    /\ documents' = IF ok THEN documents \ {Target(call.op)} ELSE documents
    /\ UNCHANGED <<authUser, authNotified, adminUser, isAdmin, lastAdmin>>
    /\ UNCHANGED <<coreVars, communityVars, voteVars, limitVars>>

\* the answer to updateDoc (lines 104-111): the edit is stored, or the catch
\* handler goes on to setDoc with the e-mail of currentUser as it is then
UpdateDocCompletes(call) ==
    /\ call \in BagToSet(adminCalls)
    /\ call.pc = "updateDoc"
    /\ IF Target(call.op) \in documents
       THEN /\ adminCalls' = adminCalls (-) SetToBag({call})
            /\ UNCHANGED documents
       ELSE /\ adminCalls' = (adminCalls (-) SetToBag({call})) (+)
                             SetToBag({AdminCall(call.op, "setDoc", adminUser)})
            /\ UNCHANGED documents
    /\ UNCHANGED <<authUser, authNotified, adminUser, isAdmin, lastAdmin>>
    /\ UNCHANGED <<coreVars, communityVars, voteVars, limitVars>>

\* the answer to setDoc (lines 112-121)
SetDocCompletes(call, ok) ==
    /\ call \in BagToSet(adminCalls)
    /\ call.pc = "setDoc"
    /\ adminCalls' = adminCalls (-) SetToBag({call})
    /\ documents' = IF ok THEN documents \cup {Target(call.op)} ELSE documents
    /\ UNCHANGED <<authUser, authNotified, adminUser, isAdmin, lastAdmin>>
    /\ UNCHANGED <<coreVars, communityVars, voteVars, limitVars>>

NextAdmin ==
    \/ \E email \in Emails, ok \in BOOLEAN : Login(email, ok)
    \/ SignInAnonymously
    \/ OnAuthStateChanged
    \/ \E ok \in BOOLEAN : Logout(ok)
    \/ \E call \in BagToSet(adminCalls) : LogoutReturns(call)
    \/ \E op \in AdminOps, newMagnitude \in Magnitudes : AdminOperation(op, newMagnitude)
    \/ \E call \in BagToSet(adminCalls), ok \in BOOLEAN : DeleteDocCompletes(call, ok)
    \/ \E call \in BagToSet(adminCalls) : UpdateDocCompletes(call)
    \/ \E call \in BagToSet(adminCalls), ok \in BOOLEAN : SetDocCompletes(call, ok)

SpecAdmin == Init /\ [][NextAdmin]_vars

(***************************************************************************)
(* The rate limiter: SecurityUtils.rateLimit as EmailService.subscribeEmail*)
(* calls it, on the key 'email_subscription'.  The call is synchronous;    *)
(* time passes between calls.                                              *)
(***************************************************************************)
\* the amounts of time that pass between two calls
Pauses == {19999, 20000}

RECURSIVE Filter(_, _, _)
\* attempts.filter(timestamp => now - timestamp < window)
Filter(stamps, t, window) ==
    IF stamps = <<>> THEN <<>>
    ELSE IF t - Head(stamps) < window
         THEN <<Head(stamps)>> \o Filter(Tail(stamps), t, window)
         ELSE Filter(Tail(stamps), t, window)

TooManyAbove(recentAttempts, limit) == Len(recentAttempts) > limit

TooMany(recentAttempts, limit) == Len(recentAttempts) >= limit

\* rateLimit(key, limit, window) on the stored stamps: what it stores and returns
RateLimit(stamps, t, limit, window) ==
    LET recentAttempts == Filter(stamps, t, window)
    IN  IF TooMany(recentAttempts, limit)
        THEN [stored |-> stamps, returned |-> FALSE]
        ELSE [stored |-> Append(recentAttempts, t), returned |-> TRUE]

\* subscribeEmail line 67
SubscribeEmail ==
    /\ Len(allowed) + refusals < MaxSubscriptions
    /\ LET result == RateLimit(attempts, clockMs, maxAttempts, windowMs)
       IN  /\ attempts' = result.stored
           /\ allowed' = IF result.returned THEN Append(allowed, clockMs) ELSE allowed
           /\ refusals' = IF result.returned THEN refusals ELSE refusals + 1
    /\ UNCHANGED clockMs
    /\ UNCHANGED <<coreVars, communityVars, voteVars, adminVars>>

\* Date.now() grows
LimitTimePasses(pause) ==
    /\ clockMs + pause <= MaxClockMs
    /\ clockMs' = clockMs + pause
    /\ UNCHANGED <<attempts, allowed, refusals>>
    /\ UNCHANGED <<coreVars, communityVars, voteVars, adminVars>>

NextLimit ==
    \/ SubscribeEmail
    \/ \E pause \in Pauses : LimitTimePasses(pause)

SpecLimit == Init /\ [][NextLimit]_vars

(***************************************************************************)
(* Properties                                                              *)
(***************************************************************************)
Done(rec) == rec.pc = "done"

\* every attempt of the invocation's fetch failed
AllAttemptsFailed(rec) == rec.src \in {"db", "stale"}

SortedByTimeDesc(s) == \A i, j \in 1..Len(s) : i < j => s[i].time >= s[j].time

\* C1: of the refreshes in flight at any moment, at most one has a network
\* fetch outstanding and at most one is writing through to the cache: a
\* second refresh issued before the first completes starts no fetch of its own.
C1_NoDoubleFetch ==
    \A a, b \in InFlight :
        a.pc \in {"fetch", "delay", "save"} /\ b.pc \in {"fetch", "delay", "save"}
            => a = b /\ CopiesIn(a, run) = 1

\* C2: when every attempt failed and getAll answered N > 0 events, the
\* refresh has made exactly those events the Snapshot and the Snapshot is
\* marked degraded (the api status does not show online).
C2_CacheFallbackDegraded ==
    \A rec \in InFlight :
        Done(rec) /\ rec.src = "db"
            => /\ rec.snap = GetAll(db)
               /\ currentEarthquakes = GetAll(db)
               /\ Len(currentEarthquakes) > 0
               /\ apiStatus = "offline"

\* C3: after a refresh whose fetch failed on all attempts the api status
\* indicator does not show online.
C3_FailureIsVisible ==
    \A rec \in InFlight :
        Done(rec) /\ AllAttemptsFailed(rec) => apiStatus # "online"

\* C4: one fetch makes at most 3 attempts; after failed attempt k (k = 1, 2)
\* it waits k x 2000 ms and then makes attempt k + 1; it fails only after
\* the 3rd attempt and then with the error of that attempt; an attempt that
\* succeeds ends the fetch (no further attempt, no wait).
C4_Shape(rec) ==
    /\ rec.attempt \in 0..3
    /\ rec.pc = "fetch" => rec.attempt \in 1..3 /\ rec.delayMs = 0
    /\ rec.pc = "delay" => /\ rec.attempt \in 1..2
                           /\ rec.delayMs = rec.attempt * 2000
                           /\ rec.error = rec.attempt
    /\ rec.pc = "getAll" => rec.attempt = 3 /\ rec.error = 3 /\ rec.delayMs = 0
    /\ rec.pc \in {"save", "perm", "done"} => rec.attempt = 0 /\ rec.delayMs = 0

\* the records that leave the bag in a step, and those that enter it
Left == {rec \in InFlight : CopiesIn(rec, run') < CopiesIn(rec, run)}
Entered == {rec \in BagToSet(run') : CopiesIn(rec, run') > CopiesIn(rec, run)}

C4_RetryPolicy ==
    [][ /\ \A rec \in BagToSet(run') : C4_Shape(rec)
        /\ \A rec \in Left :
             /\ rec.pc = "delay" =>
                  Entered = {[rec EXCEPT !.pc = "fetch", !.attempt = rec.attempt + 1,
                                         !.delayMs = 0]}
             /\ rec.pc = "fetch" =>
                  \/ Entered = {[rec EXCEPT !.pc = "delay", !.error = rec.attempt,
                                            !.delayMs = rec.attempt * 2000]}
                       /\ rec.attempt < 3
                  \/ Entered = {[rec EXCEPT !.pc = "getAll", !.error = rec.attempt]}
                       /\ rec.attempt = 3
                  \/ \A new \in Entered : new.pc \in {"save", "perm", "done"}
      ]_vars

\* a fetch that failed three times, with the third attempt's error
C4_Witness ==
    \E rec \in InFlight : rec.pc = "getAll" /\ rec.attempt = 3 /\ rec.error = 3

\* C7: every record of the cache store lies inside the region, bounds
\* inclusive.
C7_CacheInRegion ==
    \A e \in db : /\ 98 <= e.lat /\ e.lat <= 108
                  /\ 1245 <= e.lng /\ e.lng <= 1255

\* the cache holds an event that sits on the region's edge
C7_Witness ==
    \E e \in db : e.lat = 98 /\ e.lng = 1255

\* C9: the Snapshot's events are sorted by time descending.
C9_SnapshotSorted == SortedByTimeDesc(currentEarthquakes)

\* C10: when every attempt failed and the cache store is empty, the refresh
\* has left the Snapshot's events as they were before the call and the
\* Snapshot is marked degraded (the api status shows offline).
C10_StaleRetained ==
    \A rec \in InFlight :
        Done(rec) /\ rec.src = "stale" /\ db = {}
            => currentEarthquakes = rec.before /\ apiStatus = "offline"

\* C5 as stated: an id at or above the threshold that is in the Snapshots
\* of two consecutive successful refreshes has had exactly one notification.
C5_ExactlyOne ==
    \A rec \in InFlight :
        Done(rec) /\ rec.src = "net" /\ rec.prevSrc = "net"
            => \A i \in 1..Len(rec.before), j \in 1..Len(rec.snap) :
                   /\ rec.before[i].id = rec.snap[j].id
                   /\ rec.before[i].mag >= 40 /\ rec.snap[j].mag >= 40
                   => emitted[rec.snap[j].id] = 1

\* C5 (amended): such an id has had at most one notification, and exactly
\* one unless the second refresh was refused the notification permission or
\* the Notification constructor threw for the id.
C5_AtMostOne ==
    \A rec \in InFlight :
        Done(rec) /\ rec.src = "net" /\ rec.prevSrc = "net"
            => \A i \in 1..Len(rec.before), j \in 1..Len(rec.snap) :
                   /\ rec.before[i].id = rec.snap[j].id
                   /\ rec.before[i].mag >= 40 /\ rec.snap[j].mag >= 40
                   => /\ emitted[rec.snap[j].id] <= 1
                      /\ ~rec.refused /\ rec.snap[j].id \notin rec.threw
                           => emitted[rec.snap[j].id] = 1

\* the second of two successful refreshes that both delivered event 1
\* (magnitude 4.0), notified once
C5_Witness ==
    \E rec \in InFlight :
        /\ Done(rec) /\ rec.src = "net" /\ rec.prevSrc = "net"
        /\ 1 \in IdsOf(rec.before) /\ 1 \in IdsOf(rec.snap)
        /\ emitted[1] = 1 /\ 1 \in notifiedEarthquakes

\* C6 as stated: when a refresh has finished, every event of its Snapshot at
\* or above the threshold has had one notification and is in the ledger.
C6_AllNotified ==
    \A rec \in InFlight :
        Done(rec) => \A j \in 1..Len(rec.snap) :
                         rec.snap[j].mag >= 40
                         => /\ rec.snap[j].id \in notifiedEarthquakes
                            /\ emitted[rec.snap[j].id] = 1

\* C6 (amended): the same, for a refresh that was not refused the
\* notification permission and for the events whose Notification
\* constructor did not throw.
C6_NotifiedWhenPermitted ==
    \A rec \in InFlight :
        Done(rec) /\ ~rec.refused
            => \A j \in 1..Len(rec.snap) :
                   rec.snap[j].mag >= 40 /\ rec.snap[j].id \notin rec.threw
                   => /\ rec.snap[j].id \in notifiedEarthquakes
                      /\ emitted[rec.snap[j].id] = 1

\* the first refresh delivered event 1 (magnitude exactly 4.0), asked for
\* nothing it was refused, and the event is notified and in the ledger
C6_Witness ==
    \E rec \in InFlight :
        /\ Done(rec) /\ ~rec.refused /\ rec.threw = {} /\ rec.prevSrc = "none"
        /\ 1 \in IdsOf(rec.snap)
        /\ emitted[1] = 1 /\ 1 \in notifiedEarthquakes

C11_FreshSnapshot ==
    \A rec \in InFlight :
        Done(rec) /\ rec.src = "net" /\ rec.saved # "failed"
            => LET inside == {i \in 1..Len(rec.fed) :
                                 /\ rec.fed[i].geo
                                 /\ 98 <= rec.fed[i].lat /\ rec.fed[i].lat <= 108
                                 /\ 1245 <= rec.fed[i].lng /\ rec.fed[i].lng <= 1255}
               IN  /\ currentEarthquakes = rec.snap
                   /\ Len(currentEarthquakes) = Cardinality(inside)
                   /\ \A i \in inside : \E j \in 1..Len(currentEarthquakes) :
                          /\ currentEarthquakes[j].id = rec.fed[i].id
                          /\ currentEarthquakes[j].mag = rec.fed[i].mag
                          /\ currentEarthquakes[j].time = rec.fed[i].time
                          /\ currentEarthquakes[j].lat = rec.fed[i].lat
                          /\ currentEarthquakes[j].lng = rec.fed[i].lng
                   /\ apiStatus = "online"
                   /\ \A j \in 1..Len(currentEarthquakes) :
                          \E x \in db : x = currentEarthquakes[j]
                   /\ \A x, y \in db : x.id = y.id => x = y

\* a refresh fetched features 5 (outside) and 1 (on the edge) and wrote
\* event 1 through to the cache store
C11_Witness ==
    \E rec \in InFlight :
        /\ Done(rec) /\ rec.src = "net" /\ rec.saved = "ok"
        /\ Len(rec.fed) = 2 /\ rec.fed[1].id = 1 /\ rec.fed[2].id = 5
        /\ Len(currentEarthquakes) = 1 /\ currentEarthquakes[1].id = 1
        /\ \E x \in db : x.id = 1

\* C12: a cache store error never aborts a refresh.  A refresh whose write
\* failed has published the fetched events and shows online; a refresh
\* whose fallback read failed ends as one that found the cache empty: the
\* Snapshot's events are those from before the call.
C12_StorageErrorTolerated ==
    \A rec \in InFlight :
        /\ rec.saved = "failed"
              => /\ rec.pc \in {"perm", "done"}
                 /\ rec.src = "net" /\ rec.snap = SortByTimeDesc(GeoFilter(rec.fed))
                 /\ Done(rec) => currentEarthquakes = rec.snap /\ apiStatus = "online"
        /\ rec.read = "failed"
              => /\ rec.pc \in {"perm", "done"}
                 /\ rec.src = "stale" /\ rec.snap = rec.before
                 /\ Done(rec) => currentEarthquakes = rec.before

\* a refresh whose write failed, and one whose fallback read failed while
\* the Snapshot held event 1
C12_Witness ==
    \E rec \in InFlight :
        /\ Done(rec)
        /\ \/ rec.saved = "failed" /\ Len(rec.snap) = 2 /\ db = {}
           \/ rec.read = "failed" /\ Len(rec.before) = 1 /\ db # {}

\* C13: the consumers are invoked in one fixed order (stat counters, list,
\* map markers, alert banner, notifier, charts), and one that throws does
\* not keep a later one from being invoked: a refresh waiting inside the
\* notifier has invoked the first five, a finished refresh all six, whichever
\* of them threw.
C13_ConsumersIsolated ==
    \A rec \in InFlight :
        rec.watched
            => /\ rec.pc = "perm" =>
                     rec.called = <<"updateDashboard", "applyFiltersAndSort",
                                    "addEarthquakeMarkers", "checkForAlerts",
                                    "notifyMultipleEarthquakes">>
               /\ rec.pc = "done" =>
                     rec.called = <<"updateDashboard", "applyFiltersAndSort",
                                    "addEarthquakeMarkers", "checkForAlerts",
                                    "notifyMultipleEarthquakes", "updateVisualizations">>
               /\ rec.pc \notin {"perm", "done"} => rec.called = <<>>

\* a finished refresh whose stat counters and map markers threw
C13_Witness ==
    \E rec \in InFlight :
        /\ Done(rec) /\ rec.failing = {"updateDashboard", "addEarthquakeMarkers"}
        /\ Len(rec.called) = 6 /\ rec.called[6] = "updateVisualizations"

\* C14: when evictOlderThan(30) has completed, the cache store holds no
\* event with time < now - 30 x 86400 (seconds), now being the time the
\* eviction read.
C14_NoOldRecords ==
    [][ eviction.pc = "open" /\ eviction'.pc = "idle" /\ eviction'.last = "ok"
          => \A x \in db' : ~(x.time < now - 30 * 86400) ]_vars

\* an eviction has completed 30 days and 15 s after time 0: event 1 (time
\* 10) is gone, event 2 (time 20) is kept
C14_Witness ==
    /\ eviction.pc = "idle" /\ eviction.last = "ok"
    /\ now = 30 * 86400 + 15
    /\ \E x \in db : x.id = 2
    /\ \A x \in db : x.id # 1

\* C15: however the eviction interleaves with a refresh, it deletes only
\* records whose time is strictly older than now - 30 days, and the events
\* written by the refresh's write-through are in the cache store when both
\* have completed.
C15_EvictionSafe ==
    /\ [][ \A x \in db \ db' : x.time < now - 30 * 86400 ]_vars
    /\ [](\A rec \in InFlight :
              Done(rec) /\ rec.saved = "ok" /\ eviction.pc = "idle"
                  => \A j \in 1..Len(rec.snap) : rec.snap[j] \in db)

\* side properties used in the divergence note of C15: the eviction
\* deletes only records at or before the cutoff, and what a refresh wrote
\* is in the cache store when the refresh and the eviction have completed
EvictsUpToCutoff ==
    [][ \A x \in db \ db' : x.time <= now - 30 * 86400 ]_vars

WrittenEventsKept ==
    \A rec \in InFlight :
        Done(rec) /\ rec.saved = "ok" /\ eviction.pc = "idle"
            => \A j \in 1..Len(rec.snap) : rec.snap[j] \in db

\* C16: every refresh eventually completes: it never makes more than 3
\* fetch attempts, and a refresh that is waiting for the network, the retry
\* timer or the cache store eventually has its Snapshot, which is the fetched
\* result, the cache store's content, or the previous Snapshot (possibly
\* empty); no error reaches the caller (the api status never shows offline).
Waiting(rec) == rec.pc \in {"fetch", "delay", "save", "getAll"}

Completed(rec) ==
    /\ rec.pc \in {"perm", "done"}
    /\ \/ rec.src = "net"
       \/ rec.src = "db" /\ Len(rec.snap) > 0
       \/ rec.src = "stale" /\ rec.snap = rec.before

C17_LastWriteWins ==
    /\ [](\A x, y \in db : x.id = y.id => x = y)
    /\ [](db = puts.latest)
    /\ [][ \A x \in db \cup db' :
               x.id \notin IdsOf(puts'.last) => (x \in db <=> x \in db') ]_vars

\* event 1 was stored with magnitude 4.0 and event 2 with 3.9; the last
\* call gave event 1 with magnitude 4.5 and left event 2 alone
C17_Witness ==
    /\ Len(puts.last) = 1 /\ puts.last[1].id = 1 /\ puts.last[1].mag = 45
    /\ \E x \in db : x.id = 1 /\ x.mag = 45
    /\ \E x \in db : x.id = 2 /\ x.mag = 39
    /\ Cardinality(db) = 2

\* C18: a refresh that began after the region was changed (the current
\* region was the same when it began as it is now) and fetched successfully
\* has a Snapshot whose events all lie inside the current region's bounds;
\* and a change of region leaves the cache store as it was.
C18_RegionApplies ==
    /\ [](\A rec \in InFlight :
              Done(rec) /\ rec.src = "net" /\ rec.region = currentRegion
                  => \A j \in 1..Len(currentEarthquakes) :
                         LET e == currentEarthquakes[j]
                         IN  IF currentRegion = "luzon"
                             THEN /\ 120 <= e.lat /\ e.lat <= 190
                                  /\ 1195 <= e.lng /\ e.lng <= 1225
                             ELSE /\ 98 <= e.lat /\ e.lat <= 108
                                  /\ 1245 <= e.lng /\ e.lng <= 1255)
    /\ [][currentRegion' # currentRegion => db' = db]_vars

\* side property used in the divergence note of C18: a change of region
\* leaves the cache store as it was
RegionChangeKeepsCache ==
    [][currentRegion' # currentRegion => db' = db]_vars

\* C19: the geo filter is idempotent: filtering the filtered sequence again
\* gives the same sequence.
C19_FilterIdempotent ==
    refiltered # <<>> => refiltered[1] = rawEarthquakes

\* a response of three features, two of them kept, filtered twice
C19_Witness ==
    /\ Len(features) = 3 /\ Len(rawEarthquakes) = 2
    /\ refiltered # <<>> /\ Len(refiltered[1]) = 2

\* C20: an id that is in the notification ledger stays in it: no step of a
\* refresh, of the eviction or of any other operation removes an id.
C20_LedgerGrows ==
    [][notifiedEarthquakes \subseteq notifiedEarthquakes']_vars

\* the ledger holds event 1 and, a month and an eviction later, event 9
C20_Witness ==
    /\ notifiedEarthquakes = {1, 9}
    /\ eviction.pc = "idle" /\ eviction.last = "ok"
    /\ \A x \in db : x.id # 1

\* C21: however postNews calls of one user follow or overlap each other, and
\* also right after the service was initialised, the collection holds at most
\* 2 news posts of the user for any one calendar day.
C21_AtMostTwoPerDay ==
    \A day \in Days : PostsOn("u1", day) <= MAX_POSTS_PER_DAY

\* C22: a postNews call of a signed-in user with valid content is refused for
\* the daily limit only if the user has made 2 posts on the day of the call;
\* posts of earlier days do not count.
C22_LimitIsPerDay ==
    (lastPost.outcome = "limit" /\ lastPost.valid) => lastPost.madeToday >= MAX_POSTS_PER_DAY

\* C23: however voteOnReport calls follow or overlap each other, the counters
\* of a report count each user once: upvotes is the number of users whose
\* recorded vote is 'up' and downvotes the number whose recorded vote is 'down'.
C23_VotesCountUsers ==
    /\ report.upvotes = Cardinality({u \in Users : report.votedBy[u] = "up"})
    /\ report.downvotes = Cardinality({u \in Users : report.votedBy[u] = "down"})

\* C24: an admin operation called while the signed-in user is not the admin
\* (nobody signed in, signed out, or somebody else signed in) fails with
\* 'Unauthorized' and sends no write.
C24_OnlyAdminWrites ==
    (lastAdmin.op # "none" /\ ~ lastAdmin.byAdmin) => lastAdmin.outcome = "Unauthorized"

\* the admin flag follows the signed-in user once the listeners were told
AdminFlagFollowsListener ==
    (authNotified /\ isAdmin) => authUser = ADMIN_EMAIL

\* C25: of the calls of rateLimit on one key that returned true, at most
\* maxAttempts lie in any stretch of time shorter than windowMs: the call
\* that was allowed maxAttempts calls after another came at least windowMs
\* after it.
C25_AtMostMaxPerWindow ==
    \A i \in 1..Len(allowed) :
        i + maxAttempts <= Len(allowed) => allowed[i + maxAttempts] - allowed[i] >= windowMs

\* a call was refused, and later, the window over, a sixth call was allowed
C25_Witness ==
    /\ refusals > 0
    /\ Len(allowed) > maxAttempts
    /\ allowed[maxAttempts + 1] - allowed[1] = windowMs

\* C26: when a refresh has completed, the stat counters, the list, the map
\* markers and the charts are all computed from the Snapshot it published,
\* an empty one included.
C26_DisplaysAgree ==
    \A rec \in InFlight :
        (rec.displayed /\ Done(rec)) =>
            /\ shown.stats = rec.snap
            /\ shown.list = rec.snap
            /\ shown.markers = rec.snap
            /\ shown.charts = rec.snap

\* C27: every consumer of one refreshData run is passed the list that run
\* got from fetchEarthquakes, whatever other runs do at its await points.
C27_SameListToAll ==
    \A rec \in InFlight :
        (rec.followed /\ Done(rec)) =>
            \A i \in 1..Len(rec.given) : rec.given[i] = rec.snap

\* a non-empty Snapshot reaches every display of a refresh that ran alone
DisplaysAgreeUnlessEmpty ==
    \A rec \in InFlight :
        (rec.displayed /\ Done(rec) /\ rec.snap # <<>>) =>
            /\ shown.stats = rec.snap
            /\ shown.list = rec.snap
            /\ shown.markers = rec.snap
            /\ shown.charts = rec.snap

\* C28: refresh A begins, refresh B begins after it, B fetches and publishes
\* its Snapshot, and then A's last attempt fails: the step in which A's read
\* of the Cache Store is answered does not put the Cache Store contents in
\* the place of that Snapshot and of the in-memory data.
C28_NoRegression ==
    [][ (overtaken /\ \E rec \in InFlight : rec.followed /\ rec.pc = "getAll")
            => \A rec \in BagToSet(run') :
                   (rec.followed /\ rec.src = "db")
                       => rec.snap = currentEarthquakes /\ cachedData' = cachedData ]_vars

\* C29: a call answered from memory inside the 60 s window returns the result
\* of the latest fetch that succeeded, and writes nothing to the Cache Store.
C29_MemoIsLastFetch ==
    \A rec \in InFlight :
        (rec.observed /\ rec.src = "memo") =>
            rec.snap = lastNetwork /\ rec.saved = "none"

\* a call answered from memory returns the in-memory data and writes nothing
MemoIsCachedData ==
    \A rec \in InFlight :
        (rec.observed /\ rec.src = "memo") =>
            rec.snap = cachedData /\ rec.saved = "none"

\* C30: whatever refreshes overlap and whatever permission prompts are
\* pending, an id in the ledger has had exactly one notification and an id
\* not in it has had none.
C30_LedgerCountsNotifications ==
    \A id \in Ids :
        emitted[id] = IF id \in notifiedEarthquakes THEN 1 ELSE 0

\* event 1 has been notified by one refresh while another refresh, which has
\* it in its list too, still waits for the answer to its permission prompt
C30_Witness ==
    /\ emitted[1] = 1
    /\ 1 \in notifiedEarthquakes
    /\ \E rec \in InFlight : rec.pc = "perm" /\ 1 \in IdsOf(rec.sig)

\* side properties used in the divergence notes of C2 and C10
SnapshotEqualsCache ==
    \A rec \in InFlight :
        Done(rec) /\ rec.src = "db"
            => rec.snap = GetAll(db) /\ currentEarthquakes = GetAll(db) /\ Len(currentEarthquakes) > 0

StaleEventsRetained ==
    \A rec \in InFlight :
        Done(rec) /\ rec.src = "stale" => currentEarthquakes = rec.before

====
